---- MODULE Spec2Model ----
(***************************************************************************)
(* Model of src/data_collection_script.py: the stop-and-search download    *)
(* pipeline (fetch_available_dates, fetch_stops_data, save_data,           *)
(* print_summary, main).                                                   *)
(*                                                                         *)
(* A "YYYY-MM" string is the tuple of its six digits (the dash has a fixed *)
(* place and is left out), so that string order (sorted) and the order of  *)
(* the parsed datetime (strptime) are computed separately.                 *)
(***************************************************************************)
EXTENDS Integers, Sequences, FiniteSets, TLC

VARIABLES
    pc,              \* position of main; it ends at arg_error, crashed, no_data, no_records or done
    fad_call,        \* the fetch_available_dates call, <<>> when there is none: the bounds as
                     \* typed (start, end) and parsed (start_date, end_date), the response
    available_data,  \* main: available_data
    i,               \* fetch_stops_data: position of "for month_data in available_data"
    j,               \* fetch_stops_data: position of "for force_id in forces"
    all_records,     \* fetch_stops_data / main: all_records
    total_records,   \* fetch_stops_data / main: total_records
    total_requests,  \* fetch_stops_data / main: total_requests
    events,          \* calls made to the outside: requests.get(stops-force) and time.sleep
    origin,          \* for each element of all_records, the index in events of the get that returned it
    output_path,     \* main: filename handed to save_data (<<>> before)
    saved_files,     \* files written by save_data
    summary          \* what print_summary printed (<<>> before)

vars == <<pc, fad_call, available_data, i, j, all_records, total_records,
          total_requests, events, origin, output_path, saved_files, summary>>

-----------------------------------------------------------------------------
(* Bounds of the model *)

MaxEntries == 2     \* catalog entries per catalog response
MaxBody == 2        \* elements of a stops-force response body

(* Input alphabets *)

\* None is <<>> and a value v is <<v>>, for start_date, end_date and raised exceptions
None == <<>>
Some(v) == <<v>>

\* Month strings: "2023-11", "2024-01", "2024-02" and the malformed "2024-13".
\* --start, --end and the catalogs of SpecFilter use them all; the catalogs of Spec,
\* whose months are all requested, use "2023-11" and "2024-02".
BadMonth == <<2,0,2,4,1,3>>
AllMonths == {<<2,0,2,3,1,1>>, <<2,0,2,4,0,1>>, <<2,0,2,4,0,2>>, BadMonth}
RunMonths == {<<2,0,2,3,1,1>>, <<2,0,2,4,0,2>>}
Forces == {"met", "kent"}

-----------------------------------------------------------------------------
(* Helpers *)

SeqsUpTo(S, n) == UNION {[1..k -> S] : k \in 0..n}

NoDup(s) == \A a, b \in DOMAIN s : a /= b => s[a] /= s[b]

\* Python str comparison of two "YYYY-MM" strings: lexicographic on the characters
RECURSIVE StrLess(_, _)
StrLess(a, b) ==
    IF a = <<>> THEN b /= <<>>
    ELSE IF b = <<>> THEN FALSE
    ELSE IF Head(a) /= Head(b) THEN Head(a) < Head(b)
    ELSE StrLess(Tail(a), Tail(b))

\* datetime.strptime(s, "%Y-%m"): Some(point in time, counted in months), or None
\* when it raises ValueError
strptime(s) ==
    LET year == 1000 * s[1] + 100 * s[2] + 10 * s[3] + s[4]
        month == 10 * s[5] + s[6]
    IN IF month \in 1..12 THEN Some(12 * year + (month - 1)) ELSE None

\* dict.get(key, default) on a catalog entry
Get(d, key, default) == IF key \in DOMAIN d THEN d[key] ELSE default

\* line 58
EntryForces(month_data) == Get(month_data, "stop_and_search", <<>>)

-----------------------------------------------------------------------------
(* Inputs: catalog responses and command-line bounds *)

ForceLists == {f \in SeqsUpTo(Forces, Cardinality(Forces)) : NoDup(f)}

\* A catalog entry: a month and its forces; the forces key may be missing
CatalogEntries(months) ==
    [date : months, stop_and_search : ForceLists] \cup [date : months]

\* Catalogs of at most MaxEntries entries, no month twice
Catalogs(months) ==
    {c \in SeqsUpTo(CatalogEntries(months), MaxEntries) : NoDup([k \in DOMAIN c |-> c[k].date])}

\* The answer to GET crimes-street-dates: 200 with a catalog, or an error status
CatalogResponses(months) ==
    [status_code : {200}, body : Catalogs(months)] \cup [status_code : {500}, body : {<<>>}]

\* --start / --end as given on the command line: absent, or a "YYYY-MM" string
ArgStrings == {None} \cup {Some(m) : m \in AllMonths}

-----------------------------------------------------------------------------
(* parse_date and fetch_available_dates *)

\* lines 11-16 and 183-184: None stays None, a string is parsed
parse_date_opt(arg) == IF arg = None THEN [raised |-> FALSE, value |-> None]
                       ELSE [raised |-> strptime(arg[1]) = None, value |-> strptime(arg[1])]

\* InRange with the two tests made strict
InRangeExclusive(month_date, start_date, end_date) ==
    /\ ~(start_date /= None /\ month_date <= start_date[1])
    /\ ~(end_date /= None /\ month_date >= end_date[1])

\* lines 31-34: the two "continue" tests
InRange(month_date, start_date, end_date) ==
    /\ ~(start_date /= None /\ month_date < start_date[1])
    /\ ~(end_date /= None /\ month_date > end_date[1])

\* lines 26-36: the filter loop; raised when strptime raises
RECURSIVE FilterLoop(_, _, _)
FilterLoop(data, start_date, end_date) ==
    IF data = <<>> THEN [raised |-> FALSE, value |-> <<>>]
    ELSE LET month_date == strptime(Head(data).date) IN
         IF month_date = None THEN [raised |-> TRUE, value |-> <<>>]
         ELSE LET rest == FilterLoop(Tail(data), start_date, end_date) IN
              IF rest.raised THEN rest
              ELSE IF InRange(month_date[1], start_date, end_date)
                   THEN [raised |-> FALSE, value |-> <<Head(data)>> \o rest.value]
                   ELSE rest

\* lines 21-48
fetch_available_dates(resp, start_date, end_date) ==
    LET data == IF resp.status_code = 200 THEN resp.body ELSE <<>> IN
    IF start_date /= None \/ end_date /= None
    THEN FilterLoop(data, start_date, end_date)
    ELSE [raised |-> FALSE, value |-> data]

-----------------------------------------------------------------------------
(* Inputs: what one stops-force request can do *)

\* A JSON value of a response body: an object (a dict once parsed) or a string.
\* The id is the value's position in its body.
JsonValue(kind, n) == [json |-> kind, id |-> n]

\* Bodies of at most MaxBody values: objects, the last value possibly a string
Bodies ==
    {[k \in 1..n |-> JsonValue("object", k)] : n \in 0..MaxBody}
        \cup {[k \in 1..n |-> JsonValue(IF k = n THEN "string" ELSE "object", k)] : n \in 1..MaxBody}

TransportError == [exception |-> TRUE, status_code |-> 0, valid_json |-> FALSE, body |-> <<>>]

Reply(status_code, valid_json, body) ==
    [exception |-> FALSE, status_code |-> status_code, valid_json |-> valid_json, body |-> body]

\* requests.get raises; or answers 500; or 200 with a body that is not JSON; or 200
\* with a JSON array
StopsOutcomes ==
    {TransportError, Reply(500, TRUE, <<>>), Reply(200, FALSE, <<>>)}
        \cup {Reply(200, TRUE, b) : b \in Bodies}

GetEvent(force_id, date, out) ==
    [call |-> "get", force |-> force_id, date |-> date, outcome |-> out]

SleepEvent == [call |-> "sleep"]

-----------------------------------------------------------------------------
(* fetch_stops_data *)

\* record[key] = value: a dict gains or replaces the key, anything else raises TypeError
SetItem(record, key, value) ==
    IF record.json = "object"
    THEN [raised |-> FALSE,
          value |-> [k \in DOMAIN record \cup {key} |-> IF k = key THEN value ELSE record[k]]]
    ELSE [raised |-> TRUE, value |-> record]

\* TagRecord without line 84
TagRecordDateOnly(record, date, force_id) == SetItem(record, "date", date)

\* lines 83-84
TagRecord(record, date, force_id) ==
    LET dated == SetItem(record, "date", date) IN
    IF dated.raised THEN dated ELSE SetItem(dated.value, "force_id", force_id)

\* AppendRecord inserting at the front
AppendRecordFirst(records, record) == <<record>> \o records

\* line 85
AppendRecord(records, record) == Append(records, record)

\* lines 82-85: the loop over stops; stops at the first element that raises
RECURSIVE TagLoop(_, _, _, _)
TagLoop(stops, date, force_id, records) ==
    IF stops = <<>> THEN [raised |-> FALSE, all_records |-> records]
    ELSE LET tagged == TagRecord(Head(stops), date, force_id) IN
         IF tagged.raised THEN [raised |-> TRUE, all_records |-> records]
         ELSE TagLoop(Tail(stops), date, force_id, AppendRecord(records, tagged.value))

\* line 77
CountRequest(n) == n + 1

\* CountRecords counting the body as one
CountRecordsOne(n, stops) == n + 1

\* line 87
CountRecords(n, stops) == n + Len(stops)

\* lines 72-95: the try statement for one (date, force_id), given what the request does.
\* An exception leaves the try block at the statement that raised it.
TryRequest(out, date, force_id, records, n_records, n_requests) ==
    IF out.exception
    THEN [all_records |-> records, total_records |-> n_records, total_requests |-> n_requests]
    ELSE LET counted == CountRequest(n_requests) IN
         IF out.status_code /= 200 \/ ~out.valid_json \/ out.body = <<>>
         THEN [all_records |-> records, total_records |-> n_records, total_requests |-> counted]
         ELSE LET loop == TagLoop(out.body, date, force_id, records) IN
              [all_records |-> loop.all_records,
               total_records |-> IF loop.raised THEN n_records
                                 ELSE CountRecords(n_records, out.body),
               total_requests |-> counted]

\* Sleep left out
SleepSkipped(trace) == trace

\* line 97
Sleep(trace) == Append(trace, SleepEvent)

\* NextForce stepping over a force
NextForceSkipping(k) == k + 2

\* line 69: the for statement moves to the next force
NextForce(k) == k + 1

\* lines 218-223: the base filename, <<"ssd", earliest, latest>>
Min(dates) == CHOOSE d \in dates : \A e \in dates : d = e \/ StrLess(d, e)
Max(dates) == CHOOSE d \in dates : \A e \in dates : d = e \/ StrLess(e, d)
FilenameFirstLast(data) == <<"ssd", data[1].date, data[Len(data)].date>>
Filename(data) ==
    LET dates_found == {data[k].date : k \in DOMAIN data}
    IN <<"ssd", Min(dates_found), Max(dates_found)>>

\* lines 191-193 and 107-131: the files save_data writes, in its order
Formats == {"json", "csv", "parquet", "all"}
save_data(output_base, format) ==
    (IF format \in {"json", "all"} THEN <<[base |-> output_base, ext |-> "json"]>> ELSE <<>>)
    \o (IF format \in {"csv", "all"} THEN <<[base |-> output_base, ext |-> "csv"]>> ELSE <<>>)
    \o (IF format \in {"parquet", "all"} THEN <<[base |-> output_base, ext |-> "parquet"]>> ELSE <<>>)

\* lines 133-144: what print_summary prints
print_summary(data, n_requests, n_records, files) ==
    [dates |-> Len(data), total_requests |-> n_requests, total_records |-> n_records,
     files |-> files]

\* line 60: "not forces"
NoForces(forces) == forces = <<>>

\* line 198: "not available_data"
NoData(data) == data = <<>>

\* NoRecords never true
NoRecordsNever(records) == FALSE

\* line 204: "not all_records"
NoRecords(records) == records = <<>>

-----------------------------------------------------------------------------
(* main, step by step *)

Init ==
    /\ pc = "parse_args"
    /\ fad_call = <<>>
    /\ available_data = <<>>
    /\ i = 0
    /\ j = 0
    /\ all_records = <<>>
    /\ total_records = 0
    /\ total_requests = 0
    /\ events = <<>>
    /\ origin = <<>>
    /\ output_path = <<>>
    /\ saved_files = <<>>
    /\ summary = <<>>

fetch_vars == <<i, j, all_records, total_records, total_requests, events, origin>>
out_vars == <<output_path, saved_files, summary>>

\* lines 180-188, arguments accepted
ParseArgs ==
    /\ pc = "parse_args"
    /\ \E start \in ArgStrings, end \in ArgStrings :
         LET start_date == parse_date_opt(start)
             end_date == parse_date_opt(end)
         IN /\ ~start_date.raised /\ ~end_date.raised
            /\ ~(start_date.value /= None /\ end_date.value /= None
                   /\ start_date.value[1] > end_date.value[1])
            /\ fad_call' = <<[start |-> start, end |-> end,
                              start_date |-> start_date.value, end_date |-> end_date.value,
                              response |-> <<>>]>>
    /\ pc' = "fetch_dates"
    /\ UNCHANGED <<available_data, fetch_vars, out_vars>>

\* lines 16 and 188: a malformed bound, or start after end, ends the run
ArgsRejected ==
    /\ pc = "parse_args"
    /\ \E start \in ArgStrings, end \in ArgStrings :
         LET start_date == parse_date_opt(start)
             end_date == parse_date_opt(end)
         IN \/ start_date.raised
            \/ end_date.raised
            \/ /\ ~start_date.raised /\ ~end_date.raised
               /\ start_date.value /= None /\ end_date.value /= None
               /\ start_date.value[1] > end_date.value[1]
    /\ pc' = "arg_error"
    /\ UNCHANGED <<fad_call, available_data, fetch_vars, out_vars>>

\* line 196: the call returns
FetchAvailableDatesFrom(responses) ==
    /\ pc = "fetch_dates"
    /\ \E resp \in responses :
         LET call == fad_call[1]
             result == fetch_available_dates(resp, call.start_date, call.end_date)
         IN /\ ~result.raised
            /\ fad_call' = <<[call EXCEPT !.response = <<resp>>]>>
            /\ available_data' = result.value
    /\ pc' = "check_catalog"
    /\ UNCHANGED <<fetch_vars, out_vars>>

FetchAvailableDates == FetchAvailableDatesFrom(CatalogResponses(RunMonths))

FetchAvailableDatesAny == FetchAvailableDatesFrom(CatalogResponses(AllMonths))

\* line 28: strptime raises on a catalog month; nothing catches it
FetchAvailableDatesRaises ==
    /\ pc = "fetch_dates"
    /\ \E resp \in CatalogResponses(AllMonths) :
         LET call == fad_call[1]
         IN fetch_available_dates(resp, call.start_date, call.end_date).raised
    /\ pc' = "crashed"
    /\ fad_call' = <<>>
    /\ UNCHANGED <<available_data, fetch_vars, out_vars>>

\* lines 198-200
MainNoData ==
    /\ pc = "check_catalog"
    /\ NoData(available_data)
    /\ pc' = "no_data"
    /\ fad_call' = <<>>
    /\ UNCHANGED <<available_data, fetch_vars, out_vars>>

\* lines 202, 52-54
FetchStopsStart ==
    /\ pc = "check_catalog"
    /\ ~NoData(available_data)
    /\ pc' = "loop_month"
    /\ fad_call' = <<>>
    /\ i' = 1
    /\ UNCHANGED <<available_data, j, all_records, total_records, total_requests,
                   events, origin, out_vars>>

Forces_i == EntryForces(available_data[i])
Date_i == available_data[i].date

\* lines 56-62: an entry without forces
SkipMonth ==
    /\ pc = "loop_month"
    /\ i <= Len(available_data)
    /\ NoForces(Forces_i)
    /\ i' = i + 1
    /\ UNCHANGED <<pc, fad_call, available_data, j, all_records, total_records,
                   total_requests, events, origin, out_vars>>

\* lines 56-69: an entry with forces
EnterMonth ==
    /\ pc = "loop_month"
    /\ i <= Len(available_data)
    /\ ~NoForces(Forces_i)
    /\ j' = 1
    /\ pc' = "request"
    /\ UNCHANGED <<fad_call, available_data, i, all_records, total_records,
                   total_requests, events, origin, out_vars>>

\* lines 72-95
Request ==
    /\ pc = "request"
    /\ \E out \in StopsOutcomes :
         LET force_id == Forces_i[j]
             r == TryRequest(out, Date_i, force_id, all_records, total_records, total_requests)
         IN /\ events' = Append(events, GetEvent(force_id, Date_i, out))
            /\ all_records' = r.all_records
            /\ total_records' = r.total_records
            /\ total_requests' = r.total_requests
            /\ origin' = origin \o [k \in 1..(Len(r.all_records) - Len(all_records))
                                       |-> Len(events) + 1]
    /\ pc' = "sleep"
    /\ UNCHANGED <<fad_call, available_data, i, j, out_vars>>

\* lines 97 and 69/56: the delay, then the next force or the next month
SleepStep ==
    /\ pc = "sleep"
    /\ events' = Sleep(events)
    /\ IF NextForce(j) <= Len(Forces_i)
       THEN /\ j' = NextForce(j)
            /\ pc' = "request"
            /\ i' = i
       ELSE /\ j' = j
            /\ i' = i + 1
            /\ pc' = "loop_month"
    /\ UNCHANGED <<fad_call, available_data, all_records, total_records, total_requests,
                   origin, out_vars>>

\* line 99
FetchStopsReturn ==
    /\ pc = "loop_month"
    /\ i > Len(available_data)
    /\ pc' = "check_records"
    /\ UNCHANGED <<fad_call, available_data, fetch_vars, out_vars>>

\* lines 204-206
MainNoRecords ==
    /\ pc = "check_records"
    /\ NoRecords(all_records)
    /\ pc' = "no_records"
    /\ UNCHANGED <<fad_call, available_data, fetch_vars, out_vars>>

\* lines 208-229: the filename, save_data, then print_summary
\* (--format is read only here, so its value is drawn here)
SaveData ==
    /\ pc = "check_records"
    /\ ~NoRecords(all_records)
    /\ output_path' = Filename(available_data)
    /\ \E format \in Formats :
         /\ saved_files' = save_data(Filename(available_data), format)
         /\ summary' = <<print_summary(available_data, total_requests, total_records,
                                       save_data(Filename(available_data), format))>>
    /\ pc' = "done"
    /\ UNCHANGED <<fad_call, available_data, fetch_vars>>

Next ==
    \/ ParseArgs
    \/ ArgsRejected
    \/ FetchAvailableDates
    \/ MainNoData
    \/ FetchStopsStart
    \/ SkipMonth
    \/ EnterMonth
    \/ Request
    \/ SleepStep
    \/ FetchStopsReturn
    \/ MainNoRecords
    \/ SaveData

Spec == Init /\ [][Next]_vars

\* fetch_available_dates alone, over every catalog and every pair of bounds
NextFilter ==
    \/ ParseArgs
    \/ ArgsRejected
    \/ FetchAvailableDatesAny
    \/ FetchAvailableDatesRaises

SpecFilter == Init /\ [][NextFilter]_vars

-----------------------------------------------------------------------------
(* What the properties speak of *)

RECURSIVE SumSeq(_)
SumSeq(s) == IF s = <<>> THEN 0 ELSE Head(s) + SumSeq(Tail(s))

RECURSIVE Flatten(_)
Flatten(ss) == IF ss = <<>> THEN <<>> ELSE Head(ss) \o Flatten(Tail(ss))

IsPrefix(s, t) == Len(s) <= Len(t) /\ SubSeq(t, 1, Len(s)) = s

\* fetch_stops_data has returned
FetchReturned == pc \in {"check_records", "no_records", "done"}

IsGet(e) == e.call = "get"
IsSleep(e) == e.call = "sleep"

\* the stops-force requests made so far, in the order they were made
Gets == SelectSeq(events, IsGet)

\* the (month, force) of each request made so far
AttemptedPairs == [k \in DOMAIN Gets |-> <<Gets[k].date, Gets[k].force>>]

\* the (month, force) pairs of a catalog, in catalog order then force order
PairsOfEntry(month_data) ==
    [m \in DOMAIN EntryForces(month_data) |-> <<month_data.date, EntryForces(month_data)[m]>>]
Pairs(data) == Flatten([k \in DOMAIN data |-> PairsOfEntry(data[k])])

Success(out) == ~out.exception /\ out.status_code = 200
Raised(out) ==
    \/ out.exception
    \/ Success(out) /\ ~out.valid_json
    \/ Success(out) /\ out.valid_json /\ \E p \in DOMAIN out.body : out.body[p].json /= "object"

\* C1: when fetch_stops_data returns, total_requests is the number of (month, force)
\* pairs of the catalog, whatever each request did (an exception raised by the request
\* counts too)
C1_TotalRequestsCountsEveryPair ==
    FetchReturned => total_requests = Len(Pairs(available_data))

\* C2: the requests made are always the first pairs of the catalog, in catalog order then
\* force order, each once, and when fetch_stops_data returns they are all of them,
\* whatever the earlier requests did
C2_EveryPairOnceInOrder ==
    /\ IsPrefix(AttemptedPairs, Pairs(available_data))
    /\ FetchReturned => AttemptedPairs = Pairs(available_data)

C2_Witness ==
    /\ FetchReturned
    /\ Len(Gets) >= 3
    /\ Gets[1].outcome.exception
    /\ Gets[2].outcome.status_code = 500
    /\ Raised(Gets[3].outcome) /\ Success(Gets[3].outcome)

\* C3: at every point, each record of all_records has both tags, its date and force_id
\* are those of the request whose response held it, and a step never changes the
\* records already there
C3_TagsOfOrigin ==
    /\ Len(origin) = Len(all_records)
    /\ \A k \in DOMAIN all_records :
         LET record == all_records[k]
             e == events[origin[k]]
         IN /\ IsGet(e)
            /\ {"date", "force_id"} \subseteq DOMAIN record
            /\ record.date = e.date
            /\ record.force_id = e.force
            /\ \E p \in DOMAIN e.outcome.body :
                  e.outcome.body[p] = [json |-> record.json, id |-> record.id]
C3_TagsMatchRequest ==
    /\ []C3_TagsOfOrigin
    /\ [][IsPrefix(all_records, all_records') /\ IsPrefix(events, events')]_vars

C3_Witness ==
    /\ Len(all_records) >= 3
    /\ all_records[1].date /= all_records[Len(all_records)].date
    /\ \E a, b \in DOMAIN all_records :
         /\ all_records[a].date = all_records[b].date
         /\ all_records[a].force_id /= all_records[b].force_id

\* C4: of two records of all_records the earlier is the one whose month comes earlier in
\* the catalog, or in the same month whose force comes earlier in the entry, or in the
\* same request whose place in the response comes earlier
MonthIndex(record) == CHOOSE k \in DOMAIN available_data : available_data[k].date = record.date
ForceIndex(record) ==
    CHOOSE m \in DOMAIN EntryForces(available_data[MonthIndex(record)]) :
        EntryForces(available_data[MonthIndex(record)])[m] = record.force_id
Earlier(r, t) ==
    \/ MonthIndex(r) < MonthIndex(t)
    \/ MonthIndex(r) = MonthIndex(t) /\ ForceIndex(r) < ForceIndex(t)
    \/ MonthIndex(r) = MonthIndex(t) /\ ForceIndex(r) = ForceIndex(t) /\ r.id < t.id
C4_AggregateOrder ==
    \A a, b \in DOMAIN all_records : a < b => Earlier(all_records[a], all_records[b])

C4_Witness ==
    /\ FetchReturned
    /\ Len(Gets) >= 4
    /\ Len(Gets[1].outcome.body) >= 2 /\ ~Raised(Gets[1].outcome)
    /\ Raised(Gets[2].outcome)
    /\ Gets[3].outcome.status_code = 500
    /\ Len(Gets[4].outcome.body) >= 2 /\ ~Raised(Gets[4].outcome)
    /\ Len(all_records) >= 4

\* C5: when fetch_stops_data returns, total_records is the sum of the body lengths of the
\* requests answered 200 with a body that is not empty; a request with an empty body, with
\* another status or with an exception adds nothing
Contribution(out) ==
    IF Success(out) /\ ~Raised(out) THEN Len(out.body) ELSE 0
C5_TotalRecordsIsSum ==
    FetchReturned => total_records = SumSeq([k \in DOMAIN Gets |-> Contribution(Gets[k].outcome)])

C5_Witness ==
    /\ FetchReturned
    /\ total_records = 2
    /\ Len(all_records) = 2
    /\ \E k \in DOMAIN Gets : Success(Gets[k].outcome) /\ Gets[k].outcome.valid_json
                              /\ Gets[k].outcome.body = <<>>
    /\ \E k \in DOMAIN Gets : Gets[k].outcome.status_code = 500
    /\ \E k \in DOMAIN Gets : Gets[k].outcome.exception

\* C6: save_data runs only with a catalog that is not empty after filtering and an
\* aggregate that is not empty after fetching; the runs that end without data or without
\* records write no file, a catalog answered with an error status is an empty catalog, and
\* an empty catalog makes no record request
C6_ExporterOnlyWithData ==
    /\ (output_path /= <<>> \/ saved_files /= <<>> \/ summary /= <<>>)
          => (available_data /= <<>> /\ all_records /= <<>>)
    /\ pc \in {"no_data", "no_records"} => saved_files = <<>> /\ output_path = <<>>
    /\ pc = "no_data" => available_data = <<>>
    /\ pc = "no_records" => all_records = <<>>
    /\ (pc = "check_catalog" /\ fad_call[1].response[1].status_code /= 200)
          => available_data = <<>>
    /\ (available_data = <<>> /\ pc /= "check_catalog") => (events = <<>> /\ pc /= "done")

C6_Witness ==
    /\ pc = "no_records"
    /\ Len(Gets) >= 2
    /\ \A k \in DOMAIN Gets : Success(Gets[k].outcome) /\ Gets[k].outcome.valid_json
                              /\ Gets[k].outcome.body = <<>>
    /\ saved_files = <<>>

\* C7: when fetch_available_dates returns, available_data is the catalog's entries whose
\* month is not before --start and not after --end, in the catalog's order; a bound that is
\* absent does not restrict, and with both absent the catalog comes back unchanged
Kept(month_data, start, end) ==
    /\ start = None \/ ~StrLess(month_data.date, start[1])
    /\ end = None \/ ~StrLess(end[1], month_data.date)
RECURSIVE Select(_, _, _)
Select(catalog, start, end) ==
    IF catalog = <<>> THEN <<>>
    ELSE (IF Kept(Head(catalog), start, end) THEN <<Head(catalog)>> ELSE <<>>)
            \o Select(Tail(catalog), start, end)
CatalogOf(resp) == IF resp.status_code = 200 THEN resp.body ELSE <<>>
C7_FilterExact ==
    pc = "check_catalog" =>
        LET call == fad_call[1] IN
        /\ available_data = Select(CatalogOf(call.response[1]), call.start, call.end)
        /\ (call.start = None /\ call.end = None) => available_data = CatalogOf(call.response[1])

C7_Witness ==
    /\ pc = "check_catalog"
    /\ fad_call[1].start /= None /\ fad_call[1].end /= None
    /\ fad_call[1].start /= fad_call[1].end
    /\ Len(CatalogOf(fad_call[1].response[1])) = 2
    /\ Len(available_data) = 1
    /\ available_data[1].date \in {fad_call[1].start[1], fad_call[1].end[1]}

\* C8: the base filename handed to save_data is ssd_<earliest>-<latest>, the least and the
\* greatest month string over all entries of available_data, the entries without forces
\* and the entries that gave no record included
C8_FilenameSpansCatalog ==
    output_path /= <<>> =>
        /\ Len(output_path) = 3
        /\ output_path[1] = "ssd"
        /\ \E a, b \in DOMAIN available_data :
              /\ output_path[2] = available_data[a].date
              /\ output_path[3] = available_data[b].date
        /\ \A k \in DOMAIN available_data :
              /\ ~StrLess(available_data[k].date, output_path[2])
              /\ ~StrLess(output_path[3], available_data[k].date)

C8_Witness ==
    /\ output_path /= <<>>
    /\ Len(available_data) = 2
    /\ StrLess(available_data[2].date, available_data[1].date)
    /\ \A k \in DOMAIN all_records : all_records[k].date = available_data[2].date
    /\ output_path[3] = available_data[1].date

\* C9: every request is followed by one delay before the next request or the return,
\* whatever the request did; every delay follows a request
C9_DelayAfterEveryRequest ==
    /\ \A k \in DOMAIN events :
         /\ IsGet(events[k]) =>
               IF k < Len(events) THEN IsSleep(events[k + 1]) ELSE pc = "sleep"
         /\ IsSleep(events[k]) => k > 1 /\ IsGet(events[k - 1])
    /\ pc = "sleep" => events /= <<>> /\ IsGet(events[Len(events)])

C9_Witness ==
    /\ FetchReturned
    /\ Len(Gets) = 2
    /\ Len(events) = 2 * Len(Gets)
    /\ Raised(Gets[1].outcome)
    /\ Success(Gets[2].outcome) /\ ~Raised(Gets[2].outcome) /\ Gets[2].outcome.body /= <<>>
    /\ \E k \in DOMAIN available_data : EntryForces(available_data[k]) = <<>>

\* C10: when fetch_stops_data returns, total_records is the length of all_records
C10_CounterMatchesAggregate ==
    FetchReturned => total_records = Len(all_records)

====
